---- MODULE Spec2Model ----
(***************************************************************************)
(* Model of strava.py: the StravaClient (token refresh, single-page and    *)
(* paginated activity queries, single-resource fetches), the lifespan that *)
(* sets and clears the global client, and the seven MCP tools.             *)
(*                                                                         *)
(* Every blocking network call is split in two steps (request sent,        *)
(* response received): these are the points where the clock may advance    *)
(* and, under SpecConc, where another tool call may run.                   *)
(***************************************************************************)
EXTENDS Integers, Sequences, FiniteSets, TLC

VARIABLES
    strava_client,  \* the module global: NoClient or the StravaClient's fields
    lifespan,       \* position of app_lifespan: "before", "running", "after"
    now,            \* time.time()
    issued,         \* number of token pairs the provider has issued so far
    call,           \* per caller: the frame of the tool call it is running
    requests        \* HTTP requests sent by the tool calls now in progress

vars == <<strava_client, lifespan, now, issued, call, requests>>

-----------------------------------------------------------------------------
(* Program constants *)

\* refresh_access_token_if_needed: the safety margin before expiry
Margin == 300
\* get_all_activities_by_date_range: per_page of every page fetch
PerPage == 100
\* get_all_activities_by_date_range: a page shorter than this is the last
ShortPage == 100
\* get_all_activities_by_date_range: default of max_pages
DefaultMaxPages == 10
\* get_activities_by_date_range: default of limit
DefaultLimit == 100
\* get_activity_types: limit of the sample
TypesSampleLimit == 200
\* seconds added to `before` so that the end date is included
DaySeconds == 86400
\* the only status the client treats as success
StatusOK == 200

(* Bounds of the model *)

\* the clock advances in steps of Margin, at most MaxTicks times
MaxTicks == 2
\* token pairs the provider issues
MaxTokens == 2
\* largest max_pages of a direct get_all_activities_by_date_range call
MaxPages == 3
\* length of a short (last) upstream page
ShortLen == 40
\* full pages upstream serves to one paginated call
MaxFullPages == 3

-----------------------------------------------------------------------------
(* Values *)

NoClient == [set |-> FALSE]
None == "None"
Callers == {1, 2}
SeqCallers == {1}

EnvAccessToken == 0
EnvRefreshToken == 0
EnvClientId == "client_id"
EnvClientSecret == "client_secret"

\* StravaClient.__init__
NewStravaClient(access_token, refresh_token, client_id, client_secret) ==
    [set |-> TRUE,
     access_token |-> access_token,
     refresh_token |-> refresh_token,
     client_id |-> client_id,
     client_secret |-> client_secret,
     token_expires_at |-> 0]

\* datetime.strptime(s, "%Y-%m-%d").timestamp(), for a date <<y, m, d>>, in UTC
Timestamp(date) ==
    LET y0 == date[1]
        m == date[2]
        d == date[3]
        y == IF m <= 2 THEN y0 - 1 ELSE y0
        era == y \div 400
        yoe == y - era * 400
        mp == IF m > 2 THEN m - 3 ELSE m + 9
        doy == (153 * mp + 2) \div 5 + d - 1
        doe == yoe * 365 + yoe \div 4 - yoe \div 100 + doy
        days == era * 146097 + doe - 719468
    IN  days * 86400

\* the [after, before) window both date-range methods compute
Window(start_date, end_date) ==
    [after |-> {Timestamp(start_date)},
     before |-> {Timestamp(end_date) + DaySeconds}]

NoWindow == [after |-> {}, before |-> {}]

\* `if before:` / `if after:` -- None and 0 are left out of the params
Truthy(opt) == {v \in opt : v # 0}

(* Upstream pages.  A shape is what upstream answers to one page request:   *)
(* its length and the pattern of the `type` fields.                         *)
Patterns == {"run", "mixed"}
Sizes == {0, ShortLen, PerPage}
Shapes == [n : Sizes, pattern : Patterns]

TypeAt(pattern, i) ==
    IF pattern = "run" THEN "Run"
    ELSE IF i % 3 = 0 THEN "Ride" ELSE IF i % 3 = 1 THEN "Run" ELSE None

\* the activities of upstream's page `page` when it has shape `shape`
PageOf(shape, page) ==
    [i \in 1..shape.n |->
        [id |-> (page - 1) * PerPage + i, type |-> TypeAt(shape.pattern, i)]]

\* [a for a in activities if a.get("type") == activity_type]
FilterByType(activities, activity_type) ==
    SelectSeq(activities, LAMBDA a : a.type = activity_type)

\* list(set(a.get("type") for a in activities if a.get("type")))
TypesOf(activities) ==
    {activities[i].type : i \in 1..Len(activities)} \ {None}

-----------------------------------------------------------------------------
(* The frame of one tool call: the locals of the tool, of the client method *)
(* it calls and of the get_activities / refresh call inside it.             *)

NoResponse ==
    [status |-> 0, text |-> None, keys |-> {},
     access_token |-> 0, refresh_token |-> 0, expires_at |-> 0]

IdleFrame ==
    [pc |-> "idle",            \* idle, check, await_refresh, send, await_get, done
     tool |-> None,            \* the MCP tool, or "client" for a direct method call
     op |-> None,              \* the StravaClient method
     activity_type |-> None,   \* activity_type of the client method
     max_pages |-> 0,
     limit |-> 0,              \* per_page of the page fetches
     window |-> NoWindow,      \* before / after
     page |-> 1,
     current_time |-> 0,       \* refresh_access_token_if_needed: current_time
     seen |-> [access_token |-> 0, refresh_token |-> 0, token_expires_at |-> 0],
                               \* the credentials as that check found them
     refreshing |-> FALSE,     \* that check decided to refresh
     data |-> NoResponse,      \* the refresh response received, if any
     response |-> [status |-> 0, text |-> None],
                               \* the data response received, if any
     all_activities |-> <<>>,
     shapes |-> <<>>,          \* the shapes of the upstream pages received
     status |-> "none",        \* none, returned, raised
     result |-> <<>>,          \* a returned list of activities
     types |-> {},             \* a returned list of types
     body |-> None,            \* a returned dict
     error |-> None,           \* the exception's message, up to the detail
     detail |-> None]          \* the text the exception carries

NotInitializedMsg == "Strava client not initialized. Check server logs."
RefreshFailedMsg == "Failed to refresh token: "
FetchActivitiesFailedMsg == "Failed to fetch activities: "
FetchActivityFailedMsg == "Failed to fetch activity: "
KeyErrorMsg == "KeyError: "

Raise(frame, error, detail) ==
    [frame EXCEPT !.pc = "done", !.status = "raised",
                  !.error = error, !.detail = detail]

ReturnList(frame, activities) ==
    [frame EXCEPT !.pc = "done", !.status = "returned", !.result = activities]

ReturnBody(frame, body) ==
    [frame EXCEPT !.pc = "done", !.status = "returned", !.body = body]

ReturnTypes(frame, types) ==
    [frame EXCEPT !.pc = "done", !.status = "returned", !.types = types]

(* Requests on the wire. *)
TokenUrl == "https://www.strava.com/oauth/token"
BaseUrl == "https://www.strava.com/api/v3"

RefreshPost(c, client) ==
    [caller |-> c, method |-> "POST", url |-> TokenUrl, path |-> None,
     token |-> client.refresh_token,
     client_id |-> client.client_id, client_secret |-> client.client_secret,
     per_page |-> 0, page |-> 0, before |-> {}, after |-> {}]

DataGet(c, client, frame) ==
    LET listing == frame.op \in {"get_activities", "get_activity_types",
                                  "get_all_activities_by_date_range"}
    IN  [caller |-> c, method |-> "GET", url |-> BaseUrl,
         path |-> IF listing THEN "/athlete/activities"
                  ELSE IF frame.op = "get_athlete" THEN "/athlete"
                  ELSE "/activities/{activity_id}",
         token |-> client.access_token,
         client_id |-> None, client_secret |-> None,
         per_page |-> IF listing THEN frame.limit ELSE 0,
         page |-> IF listing THEN frame.page ELSE 0,
         before |-> IF listing THEN Truthy(frame.window.before) ELSE {},
         after |-> IF listing THEN Truthy(frame.window.after) ELSE {}]

\* the requests of caller c, in the order sent
RequestsOf(c) == SelectSeq(requests, LAMBDA r : r.caller = c)
Forget(c) == SelectSeq(requests, LAMBDA r : r.caller # c)

-----------------------------------------------------------------------------
(* Inputs *)

Tools ==
    {"test_connection", "get_recent_activities", "get_activities_by_date_range",
     "get_all_activities_in_year", "get_available_activity_types",
     "get_athlete_profile", "get_activity_details"}
\* the tools of one data request, used for the concurrent calls
SingleRequestTools == {"get_athlete_profile", "get_activity_details"}
ActivityTypes == {None, "Run"}
Limits == {30, 200}
Years == {2024}
DateRanges == {<< <<2024, 1, 1>>, <<2024, 1, 31>> >>}
\* lifetimes of the tokens the provider issues: shorter than the margin,
\* twice the margin, and the provider's usual six hours
UsualLifetime == 6 * 3600
Lifetimes == {Margin \div 2, 2 * Margin, UsualLifetime}
ErrorBodies == {"invalid_grant", "rate_limited"}
TokenKeys == <<"access_token", "refresh_token", "expires_at">>

-----------------------------------------------------------------------------
(* app_lifespan *)

\* up to the yield: the global is set from the environment.  The tools are
\* synchronous functions run on the server's loop, as is the lifespan, so no
\* tool call is in progress when it runs.
LifespanStartup ==
    /\ lifespan = "before"
    /\ \A c \in Callers : call[c].pc = "idle"
    /\ strava_client' = NewStravaClient(EnvAccessToken, EnvRefreshToken,
                                        EnvClientId, EnvClientSecret)
    /\ lifespan' = "running"
    /\ UNCHANGED <<now, issued, call, requests>>

\* the finally: the global is cleared
LifespanTeardown ==
    /\ lifespan = "running"
    /\ \A c \in Callers : call[c].pc = "idle"
    /\ strava_client' = NoClient
    /\ lifespan' = "after"
    /\ UNCHANGED <<now, issued, call, requests>>

\* the clock
Tick ==
    /\ now < MaxTicks * Margin
    /\ now' = now + Margin
    /\ UNCHANGED <<strava_client, lifespan, issued, call, requests>>

-----------------------------------------------------------------------------
(* The tools and the client methods they enter *)

\* the guard left out of the tools
NeverNotInitialized(client) == FALSE

\* `if not strava_client:`
NotInitialized(client) == ~client.set

\* get_activities(limit, before, after, activity_type, page=1), up to its
\* call of refresh_access_token_if_needed
EnterGetActivities(frame, op, limit, window, activity_type) ==
    [frame EXCEPT !.pc = "check", !.op = op, !.limit = limit,
                  !.window = window, !.activity_type = activity_type,
                  !.page = 1]

\* the loop bound off by one
LoopContinuesOneMore(page, max_pages) == page <= max_pages + 1

\* `while page <= max_pages`
LoopContinues(page, max_pages) == page <= max_pages

\* get_all_activities_by_date_range, up to the first page fetch
EnterGetAll(frame, window, activity_type, max_pages) ==
    LET f == [frame EXCEPT !.op = "get_all_activities_by_date_range",
                           !.limit = PerPage, !.window = window,
                           !.activity_type = activity_type,
                           !.max_pages = max_pages,
                           !.page = 1, !.all_activities = <<>>]
    IN  IF LoopContinues(1, max_pages)
        THEN [f EXCEPT !.pc = "check"]
        ELSE ReturnList(f, f.all_activities)

\* get_athlete, get_activity_by_id, up to the refresh call
EnterSingle(frame, op) == [frame EXCEPT !.pc = "check", !.op = op]

\* the frames a tool can be entered with, over its arguments
ToolEntries(tool) ==
    LET f == [IdleFrame EXCEPT !.tool = tool]
    IN  CASE tool = "get_recent_activities" ->
               {EnterGetActivities(f, "get_activities", l, NoWindow, None) :
                   l \in Limits}
          [] tool = "get_activities_by_date_range" ->
               {EnterGetActivities(f, "get_activities", DefaultLimit,
                                   Window(r[1], r[2]), t) :
                   r \in DateRanges, t \in ActivityTypes}
          [] tool = "get_all_activities_in_year" ->
               {EnterGetAll(f, Window(<<y, 1, 1>>, <<y, 12, 31>>), t,
                            DefaultMaxPages) :
                   y \in Years, t \in ActivityTypes}
          [] tool = "get_available_activity_types" ->
               {EnterGetActivities(f, "get_activity_types", TypesSampleLimit,
                                   NoWindow, None)}
          [] tool = "get_athlete_profile" -> {EnterSingle(f, "get_athlete")}
          [] tool = "get_activity_details" ->
               {EnterSingle(f, "get_activity_by_id")}

\* test_connection: no look at the global
TestConnection(frame) == ReturnBody(frame, "connected")

\* a tool function, up to the first network call of the method it calls
ToolCall(tool, client) ==
    LET f == [IdleFrame EXCEPT !.tool = tool]
    IN  IF tool = "test_connection" THEN {TestConnection(f)}
        ELSE IF NotInitialized(client)
        THEN {Raise(f, NotInitializedMsg, None)}
        ELSE ToolEntries(tool)

InvokeTool(c, tools) ==
    /\ call[c].pc = "idle"
    /\ \E tool \in tools :
         \E f \in ToolCall(tool, strava_client) :
            call' = [call EXCEPT ![c] = f]
    /\ UNCHANGED <<strava_client, lifespan, now, issued, requests>>

\* get_all_activities_by_date_range called on the client itself, with any
\* max_pages
CallGetAll(c) ==
    /\ call[c].pc = "idle"
    /\ strava_client.set
    /\ \E r \in DateRanges, t \in ActivityTypes, m \in 0..MaxPages :
         call' = [call EXCEPT ![c] =
                    EnterGetAll([IdleFrame EXCEPT !.tool = "client"],
                                Window(r[1], r[2]), t, m)]
    /\ UNCHANGED <<strava_client, lifespan, now, issued, requests>>

\* the call is over: its result or exception has gone to the caller
Return(c) ==
    /\ call[c].pc = "done"
    /\ call' = [call EXCEPT ![c] = IdleFrame]
    /\ requests' = Forget(c)
    /\ UNCHANGED <<strava_client, lifespan, now, issued>>

-----------------------------------------------------------------------------
(* refresh_access_token_if_needed *)

\* the comparison made strict: no refresh exactly at the margin
RefreshNeededStrict(current_time, token_expires_at) ==
    current_time > token_expires_at - Margin

\* the margin left out: a refresh only once the token has expired
RefreshNeededAtExpiry(current_time, token_expires_at) ==
    current_time >= token_expires_at

\* `if current_time >= (self.token_expires_at - 300)`
RefreshNeeded(current_time, token_expires_at) ==
    current_time >= token_expires_at - Margin

Credentials(client) ==
    [access_token |-> client.access_token,
     refresh_token |-> client.refresh_token,
     token_expires_at |-> client.token_expires_at]

\* the check, and the POST when it is needed
RefreshCheck(c) ==
    LET frame == call[c]
        need == RefreshNeeded(now, strava_client.token_expires_at)
    IN  /\ frame.pc = "check"
        /\ strava_client.set
        /\ call' = [call EXCEPT ![c] =
                      [frame EXCEPT !.current_time = now,
                                    !.seen = Credentials(strava_client),
                                    !.refreshing = need,
                                    !.data = NoResponse,
                                    !.pc = IF need THEN "await_refresh" ELSE "send"]]
        /\ requests' = IF need THEN Append(requests, RefreshPost(c, strava_client))
                       ELSE requests
        /\ UNCHANGED <<strava_client, lifespan, now, issued>>

\* what the provider may answer: a new token pair (complete, or lacking one
\* key), or a non-success status with an error body
RefreshResponses ==
    {[status |-> StatusOK, text |-> "tokens",
      keys |-> {"access_token", "refresh_token", "expires_at"},
      access_token |-> issued + 1, refresh_token |-> issued + 1,
      expires_at |-> now + life] :
        life \in (IF issued < MaxTokens THEN Lifetimes ELSE {})}
    \cup
    {[status |-> StatusOK, text |-> "tokens",
      keys |-> {"access_token", "refresh_token", "expires_at"} \ {k},
      access_token |-> issued + 1, refresh_token |-> issued + 1,
      expires_at |-> now + UsualLifetime] :
        k \in (IF issued < MaxTokens
               THEN {"access_token", "refresh_token", "expires_at"} ELSE {})}
    \cup
    {[status |-> 400, text |-> b, keys |-> {},
      access_token |-> 0, refresh_token |-> 0, expires_at |-> 0] :
        b \in ErrorBodies}

\* the first of data["access_token"], data["refresh_token"],
\* data["expires_at"] that raises KeyError, or None
FirstMissing(data) ==
    IF \A i \in 1..3 : TokenKeys[i] \in data.keys THEN None
    ELSE TokenKeys[CHOOSE i \in 1..3 :
                      /\ TokenKeys[i] \notin data.keys
                      /\ \A j \in 1..(i - 1) : TokenKeys[j] \in data.keys]

\* the three assignments, in order, up to the first missing key
StoreTokens(client, data) ==
    LET c1 == [client EXCEPT !.access_token = data.access_token]
        c2 == [c1 EXCEPT !.refresh_token = data.refresh_token]
        c3 == [c2 EXCEPT !.token_expires_at = data.expires_at]
        missing == FirstMissing(data)
    IN  IF missing = "access_token" THEN client
        ELSE IF missing = "refresh_token" THEN c1
        ELSE IF missing = "expires_at" THEN c2
        ELSE c3

\* the else branch lost: the method returns and the request goes out
RefreshFailureIgnored(frame, data) == [frame EXCEPT !.pc = "send"]

\* the else branch: the exception carries response.text
RefreshFailed(frame, data) == Raise(frame, RefreshFailedMsg, data.text)

\* the frame once the response is in
AfterRefresh(frame, data) ==
    LET f == [frame EXCEPT !.data = data]
    IN  IF data.status = StatusOK
        THEN IF FirstMissing(data) = None
             THEN [f EXCEPT !.pc = "send"]
             ELSE Raise(f, KeyErrorMsg, FirstMissing(data))
        ELSE RefreshFailed(f, data)

RefreshResponse(c) ==
    /\ call[c].pc = "await_refresh"
    /\ \E data \in RefreshResponses :
         /\ call' = [call EXCEPT ![c] = AfterRefresh(call[c], data)]
         /\ strava_client' = IF data.status = StatusOK
                             THEN StoreTokens(strava_client, data)
                             ELSE strava_client
         /\ issued' = IF data.status = StatusOK THEN issued + 1 ELSE issued
    /\ UNCHANGED <<lifespan, now, requests>>

-----------------------------------------------------------------------------
(* The data request *)

\* headers = {"Authorization": f"Bearer {self.access_token}"}; requests.get
SendGet(c) ==
    /\ call[c].pc = "send"
    /\ requests' = Append(requests, DataGet(c, strava_client, call[c]))
    /\ call' = [call EXCEPT ![c].pc = "await_get"]
    /\ UNCHANGED <<strava_client, lifespan, now, issued>>

\* the status check left out
FetchNeverFailed(status) == FALSE

\* `if response.status_code != 200`
FetchFailed(status) == status # StatusOK

\* `if len(activities) < 100: break`
LastPage(activities) == Len(activities) < ShortPage

\* the list replaced by the page instead of extended with it
ExtendReplacing(all_activities, activities) == activities

\* all_activities.extend(activities)
Extend(all_activities, activities) == all_activities \o activities

\* the body of the while loop after the page fetch
LoopBody(frame, activities) ==
    IF activities = <<>> THEN ReturnList(frame, frame.all_activities)
    ELSE LET kept == IF frame.activity_type # None
                     THEN FilterByType(activities, frame.activity_type)
                     ELSE activities
             all == Extend(frame.all_activities, kept)
             page == frame.page + 1
             f == [frame EXCEPT !.all_activities = all, !.page = page]
         IN  IF LastPage(kept) THEN ReturnList(f, all)
             ELSE IF LoopContinues(page, frame.max_pages)
             THEN [f EXCEPT !.pc = "check"]
             ELSE ReturnList(f, all)

\* get_athlete: response.json(), whatever the status
AthleteResult(frame, resp) == ReturnBody(frame, resp.text)

\* get_activity_by_id after the GET
ActivityResult(frame, resp) ==
    IF FetchFailed(resp.status)
    THEN Raise(frame, FetchActivityFailedMsg, resp.text)
    ELSE ReturnBody(frame, resp.text)

\* get_activities after the GET, and what its caller does with the list
ActivitiesResult(frame, resp) ==
    IF FetchFailed(resp.status)
    THEN Raise(frame, FetchActivitiesFailedMsg, resp.text)
    ELSE LET activities == PageOf(resp.shape, frame.page)
             f == [frame EXCEPT !.shapes = Append(@, resp.shape)]
         IN  CASE frame.op = "get_activities" ->
                    ReturnList(f, IF frame.activity_type # None
                                  THEN FilterByType(activities, frame.activity_type)
                                  ELSE activities)
               [] frame.op = "get_activity_types" ->
                    ReturnTypes(f, TypesOf(activities))
               [] frame.op = "get_all_activities_by_date_range" ->
                    LoopBody(f, activities)

AfterGet(frame, resp) ==
    LET f == [frame EXCEPT !.response = [status |-> resp.status,
                                         text |-> resp.text]]
    IN  CASE frame.op = "get_athlete" -> AthleteResult(f, resp)
          [] frame.op = "get_activity_by_id" -> ActivityResult(f, resp)
          [] OTHER -> ActivitiesResult(f, resp)

FullPages(shapes) ==
    Cardinality({i \in 1..Len(shapes) : shapes[i].n = PerPage})

\* what upstream may answer to the data request of `frame`
GetResponses(frame) ==
    LET listing == frame.op \notin {"get_athlete", "get_activity_by_id"}
        empty == [n |-> 0, pattern |-> "run"]
    IN  {[status |-> 429, text |-> "Rate Limit Exceeded", shape |-> empty]}
        \cup
        (IF listing
         THEN {[status |-> StatusOK, text |-> "activities", shape |-> sh] :
                  sh \in {s \in Shapes :
                            /\ s.n = 0 => s = empty
                            /\ s.n = PerPage =>
                                 FullPages(frame.shapes) < MaxFullPages}}
         ELSE {[status |-> StatusOK, text |-> "resource", shape |-> empty]})

GetResponse(c) ==
    /\ call[c].pc = "await_get"
    /\ \E resp \in GetResponses(call[c]) :
         call' = [call EXCEPT ![c] = AfterGet(call[c], resp)]
    /\ UNCHANGED <<strava_client, lifespan, now, issued, requests>>

-----------------------------------------------------------------------------
(* Specifications *)

Init ==
    /\ strava_client = NoClient
    /\ lifespan = "before"
    /\ now = 0
    /\ issued = 0
    /\ call = [c \in Callers |-> IdleFrame]
    /\ requests = <<>>

\* the server as it runs: one tool call at a time
Next ==
    \/ LifespanStartup
    \/ LifespanTeardown
    \/ Tick
    \/ \E c \in SeqCallers :
         \/ InvokeTool(c, Tools)
         \/ CallGetAll(c)
         \/ RefreshCheck(c)
         \/ RefreshResponse(c)
         \/ SendGet(c)
         \/ GetResponse(c)
         \/ Return(c)

Spec == Init /\ [][Next]_vars

\* a host that runs tool calls concurrently on the started server
InitConc ==
    /\ strava_client = NewStravaClient(EnvAccessToken, EnvRefreshToken,
                                       EnvClientId, EnvClientSecret)
    /\ lifespan = "running"
    /\ now = 0
    /\ issued = 0
    /\ call = [c \in Callers |-> IdleFrame]
    /\ requests = <<>>

NextConc ==
    \/ Tick
    \/ \E c \in Callers :
         \/ InvokeTool(c, SingleRequestTools)
         \/ RefreshCheck(c)
         \/ RefreshResponse(c)
         \/ SendGet(c)
         \/ GetResponse(c)
         \/ Return(c)

SpecConc == InitConc /\ [][NextConc]_vars

-----------------------------------------------------------------------------
(* What the claims read off a state *)

Gets(c) == SelectSeq(RequestsOf(c), LAMBDA r : r.method = "GET")
Posts(c) == SelectSeq(RequestsOf(c), LAMBDA r : r.method = "POST")

\* the requests of c's current fetch before its data GET: those after the
\* GET of the fetch before it
BeforeGet(c) ==
    LET rs == RequestsOf(c)
        upto == IF call[c].pc = "await_get" /\ Len(rs) > 0
                THEN SubSeq(rs, 1, Len(rs) - 1) ELSE rs
        gets == {i \in 1..Len(upto) : upto[i].method = "GET"}
        from == IF gets = {} THEN 1
                ELSE 1 + CHOOSE i \in gets : \A j \in gets : j <= i
    IN  SubSeq(upto, from, Len(upto))

\* c has been through the refresh step of its current fetch and is at, or
\* just past, the sending of the data GET
PastRefresh(c) == call[c].pc \in {"send", "await_get"}

-----------------------------------------------------------------------------
(* C1: an operation about to send its data GET has sent exactly one refresh *)
(* POST, before the GET, if its check read a time T >= token_expires_at -   *)
(* 300, and none if T < token_expires_at - 300; a refresh POST is in flight *)
(* only in the first case.  A fresh client (token_expires_at = 0) refreshes.*)
C1_RefreshIffWithinMargin ==
    \A c \in Callers :
        LET f == call[c]
            due == f.current_time >= f.seen.token_expires_at - 300
            before == BeforeGet(c)
        IN  /\ PastRefresh(c) =>
                /\ due => Len(before) = 1 /\ before[1].method = "POST"
                /\ ~due => before = <<>>
                /\ f.seen.token_expires_at = 0 => Len(before) = 1
            /\ f.pc = "await_refresh" =>
                due /\ Len(before) = 1 /\ before[1].method = "POST"

\* a GET sent after a refresh made exactly at the margin, on a client that
\* had refreshed before
C1_Witness ==
    \E c \in Callers :
        /\ call[c].pc = "await_get"
        /\ call[c].seen.token_expires_at > 0
        /\ call[c].current_time = call[c].seen.token_expires_at - 300
        /\ Len(Posts(c)) >= 1

-----------------------------------------------------------------------------
(* C2, as stated: whenever a data GET is sent, the time it is sent at is    *)
(* below the expiry of the client's token minus 300.                        *)
C2_GetWithinMargin ==
    [][\A c \in Callers :
          (call[c].pc = "send" /\ call'[c].pc = "await_get") =>
              now < strava_client.token_expires_at - 300]_vars

(* C2, amended: a data GET is sent only by an operation whose check either  *)
(* read a time below token_expires_at - 300 and sent no refresh, or sent a  *)
(* refresh that was answered with success and all three fields; the GET     *)
(* then carries the token of that response, whatever its expires_at.        *)
C2_GetAfterCheckOrRefresh ==
    \A c \in Callers :
        LET f == call[c]
            rs == RequestsOf(c)
        IN  f.pc = "await_get" =>
                IF f.refreshing
                THEN /\ f.data.status = 200
                     /\ f.data.keys = {"access_token", "refresh_token", "expires_at"}
                     /\ rs[Len(rs)].token = f.data.access_token
                ELSE /\ f.current_time < f.seen.token_expires_at - 300
                     /\ rs[Len(rs)].token = f.seen.access_token

\* a GET sent right after a refresh whose token is already inside the margin
C2_Witness ==
    \E c \in Callers :
        /\ call[c].pc = "await_get"
        /\ call[c].refreshing
        /\ call[c].data.expires_at < now + 300
        /\ RequestsOf(c)[Len(RequestsOf(c))].token = call[c].data.access_token

-----------------------------------------------------------------------------
(* C3: when the refresh POST is answered with a non-success status the      *)
(* operation is over, with the exception "Failed to refresh token: " +      *)
(* the response body, after one refresh POST and no data GET of that fetch, *)
(* and with nothing returned (no partial list from the paginated method).   *)
C3_RefreshFailureIsTerminal ==
    \A c \in Callers :
        LET f == call[c]
            before == BeforeGet(c)
        IN  (f.data.status # 0 /\ f.data.status # 200) =>
                /\ f.pc = "done"
                /\ f.status = "raised"
                /\ f.error = "Failed to refresh token: "
                /\ f.detail = f.data.text
                /\ Len(before) = 1 /\ before[1].method = "POST"
                /\ Len(Posts(c)) + Len(Gets(c)) = Len(RequestsOf(c))
                /\ Len(Gets(c)) = f.page - 1
                /\ f.result = <<>> /\ f.types = {} /\ f.body = None

\* a refresh failure on a later page of the paginated method, with
\* activities of the earlier pages already collected
C3_Witness ==
    \E c \in Callers :
        /\ call[c].op = "get_all_activities_by_date_range"
        /\ call[c].data.status = 400
        /\ call[c].page >= 2
        /\ call[c].all_activities # <<>>
        /\ call[c].status = "raised"

-----------------------------------------------------------------------------
(* C4, as stated: each of the seven tools, invoked while the global client  *)
(* is unset, raises the client-not-initialized error and sends no request.  *)
(* (The global changes only between tool calls, so it is unset now if it    *)
(* was when the call started.)                                              *)
C4_EveryToolRaisesWhenUnset ==
    \A c \in Callers :
        LET f == call[c]
        IN  (f.tool \in Tools /\ ~strava_client.set) =>
                /\ f.pc = "done"
                /\ f.status = "raised"
                /\ f.error = "Strava client not initialized. Check server logs."
                /\ RequestsOf(c) = <<>>

(* C4, amended: the six tools that use the client raise the client-not-     *)
(* initialized error, without any request, when invoked while the global    *)
(* client is unset (before startup or after teardown); test_connection      *)
(* does not look at the client and returns its "connected" status, also     *)
(* without any request.                                                     *)
C4_ClientToolsRaiseWhenUnset ==
    \A c \in Callers :
        LET f == call[c]
        IN  (f.tool \in Tools /\ ~strava_client.set) =>
                /\ f.pc = "done"
                /\ RequestsOf(c) = <<>>
                /\ IF f.tool = "test_connection"
                   THEN f.status = "returned" /\ f.body = "connected"
                   ELSE /\ f.status = "raised"
                        /\ f.error = "Strava client not initialized. Check server logs."
                        /\ f.result = <<>> /\ f.types = {} /\ f.body = None

\* a client tool invoked after the teardown has cleared the global
C4_Witness ==
    \E c \in Callers :
        /\ lifespan = "after"
        /\ call[c].tool = "get_athlete_profile"
        /\ call[c].status = "raised"
        /\ call[c].error = "Strava client not initialized. Check server logs."

-----------------------------------------------------------------------------
(* C5, as stated: a data GET answered with a non-success status ends the    *)
(* operation with a fetch error carrying the upstream body, and returns     *)
(* nothing, in get_activities, get_activity_by_id and get_athlete alike.    *)
C5_EveryFetchFailureRaises ==
    \A c \in Callers :
        LET f == call[c]
        IN  (f.response.status # 0 /\ f.response.status # 200) =>
                /\ f.pc = "done"
                /\ f.status = "raised"
                /\ f.error \in {"Failed to fetch activities: ",
                                "Failed to fetch activity: "}
                /\ f.detail = f.response.text

(* C5, amended: a data GET answered with a non-success status ends          *)
(* get_activities (and the methods built on it) and get_activity_by_id with *)
(* a fetch error carrying the upstream body and no result, after that one   *)
(* GET; get_athlete does not look at the status and returns the parsed body *)
(* of the response as its normal result, also after one GET.                *)
C5_FetchFailureRaisesExceptAthlete ==
    \A c \in Callers :
        LET f == call[c]
            rs == RequestsOf(c)
        IN  (f.response.status # 0 /\ f.response.status # 200) =>
                /\ f.pc = "done"
                /\ Len(rs) > 0 /\ rs[Len(rs)].method = "GET"
                /\ Len(Gets(c)) = f.page
                /\ IF f.op = "get_athlete"
                   THEN f.status = "returned" /\ f.body = f.response.text
                   ELSE /\ f.status = "raised"
                        /\ f.error = (IF f.op = "get_activity_by_id"
                                      THEN "Failed to fetch activity: "
                                      ELSE "Failed to fetch activities: ")
                        /\ f.detail = f.response.text
                        /\ f.result = <<>> /\ f.types = {} /\ f.body = None

\* get_activity_by_id ended by a non-success answer to its GET
C5_Witness ==
    \E c \in Callers :
        /\ call[c].response.status = 429
        /\ call[c].status = "raised"
        /\ call[c].detail = "Rate Limit Exceeded"
        /\ call[c].op = "get_activity_by_id"

-----------------------------------------------------------------------------
(* C6: get_all_activities_by_date_range, for every max_pages >= 0, sends at *)
(* most max_pages page requests; they ask for pages 1, 2, ..., k in this    *)
(* order, each with per_page = 100 and the before/after of the call; and    *)
(* once the answer to request number max_pages is in, the method is over.   *)
C6_PageRequestsBounded ==
    \A c \in Callers :
        LET f == call[c]
            gets == Gets(c)
        IN  f.op = "get_all_activities_by_date_range" =>
                /\ Len(gets) <= f.max_pages
                /\ \A i \in 1..Len(gets) :
                      /\ gets[i].page = i
                      /\ gets[i].per_page = 100
                      /\ gets[i].path = "/athlete/activities"
                      /\ gets[i].before = Truthy(f.window.before)
                      /\ gets[i].after = Truthy(f.window.after)
                /\ f.pc \in {"check", "await_refresh", "send"} =>
                      Len(gets) < f.max_pages
                /\ f.max_pages = 0 => f.pc = "done" /\ f.status = "returned"

\* the cap reached: max_pages full pages fetched, and the method returned
C6_Witness ==
    \E c \in Callers :
        /\ call[c].op = "get_all_activities_by_date_range"
        /\ call[c].max_pages >= 2
        /\ Len(Gets(c)) = call[c].max_pages
        /\ Len(call[c].shapes) = call[c].max_pages
        /\ call[c].shapes[call[c].max_pages].n = 100
        /\ call[c].pc = "done" /\ call[c].status = "returned"

-----------------------------------------------------------------------------
(* The activities of upstream's pages 1..k, of shapes shapes[1..k], in      *)
(* upstream order.                                                          *)
RECURSIVE UpstreamActivities(_, _)
UpstreamActivities(shapes, k) ==
    IF k = 0 THEN <<>>
    ELSE UpstreamActivities(shapes, k - 1) \o
         [i \in 1..shapes[k].n |->
            [id |-> (k - 1) * 100 + i, type |-> TypeAt(shapes[k].pattern, i)]]

Returned(c, op) ==
    /\ call[c].op = op
    /\ call[c].pc = "done"
    /\ call[c].status = "returned"

(* C7: get_all_activities_by_date_range, with or without activity_type,     *)
(* stops on the size of the page as upstream returned it: when it returns,  *)
(* every page fetched but the last had 100 activities, the last one was     *)
(* empty or shorter than 100 unless max_pages was reached, and the result   *)
(* holds every activity of the requested type of the pages fetched.         *)
C7_StopsOnUpstreamPageSize ==
    \A c \in Callers :
        LET f == call[c]
            k == Len(f.shapes)
            all == UpstreamActivities(f.shapes, k)
        IN  Returned(c, "get_all_activities_by_date_range") =>
                /\ \A i \in 1..(k - 1) : f.shapes[i].n = 100
                /\ k < f.max_pages => k >= 1 /\ f.shapes[k].n < 100
                /\ f.result = IF f.activity_type = None THEN all
                              ELSE SelectSeq(all, LAMBDA a : a.type = f.activity_type)

-----------------------------------------------------------------------------
(* C8: with no activity_type, get_all_activities_by_date_range returns the  *)
(* concatenation, in upstream order, of the pages it fetched; after n full  *)
(* pages of 100 and a page of m < 100 activities, with n + 1 <= max_pages,  *)
(* it has made n + 1 fetches and returns 100 * n + m activities.            *)
C8_UnfilteredConcatenation ==
    \A c \in Callers :
        LET f == call[c]
            k == Len(f.shapes)
        IN  (Returned(c, "get_all_activities_by_date_range")
                /\ f.activity_type = None) =>
                /\ Len(Gets(c)) = k
                /\ f.result = UpstreamActivities(f.shapes, k)
                /\ \A i \in 1..(k - 1) : f.shapes[i].n = 100
                /\ k < f.max_pages => k >= 1 /\ f.shapes[k].n < 100
                /\ k >= 1 => Len(f.result) = 100 * (k - 1) + f.shapes[k].n
                /\ \A i \in 1..Len(f.result) : f.result[i].id = i

\* three pages of 100 and one of 40: 340 activities in 4 fetches
C8_Witness ==
    \E c \in Callers :
        /\ Returned(c, "get_all_activities_by_date_range")
        /\ call[c].activity_type = None
        /\ [i \in 1..Len(call[c].shapes) |-> call[c].shapes[i].n]
              = <<100, 100, 100, 40>>
        /\ Len(Gets(c)) = 4
        /\ Len(call[c].result) = 340

-----------------------------------------------------------------------------
(* C9: once refresh_access_token_if_needed has had its response, whatever   *)
(* it is, access_token, refresh_token and token_expires_at are the three    *)
(* values of the response or the three values from before the call; and     *)
(* client_id and client_secret are never changed.                           *)
C9_CredentialsReplacedAtomically ==
    /\ strava_client.set =>
          /\ strava_client.client_id = EnvClientId
          /\ strava_client.client_secret = EnvClientSecret
    /\ \A c \in Callers :
          LET f == call[c]
          IN  f.data.status # 0 =>
                \/ Credentials(strava_client) = f.seen
                \/ Credentials(strava_client) =
                      [access_token |-> f.data.access_token,
                       refresh_token |-> f.data.refresh_token,
                       token_expires_at |-> f.data.expires_at]

-----------------------------------------------------------------------------
(* C10: refresh-and-request sequences of concurrent tool calls on the one   *)
(* client are serialized: no two refresh POSTs are in flight with the same  *)
(* refresh token; a refresh in flight was started from the credentials the  *)
(* client holds now, so storing its result overwrites no other refresh; and *)
(* a data GET in flight carries the access token the client holds.          *)
C10_RefreshAndRequestSerialized ==
    /\ \A c1, c2 \in Callers :
          (c1 # c2 /\ call[c1].pc = "await_refresh" /\ call[c2].pc = "await_refresh")
             => call[c1].seen.refresh_token # call[c2].seen.refresh_token
    /\ \A c \in Callers :
          call[c].pc = "await_refresh" =>
             call[c].seen.refresh_token = strava_client.refresh_token
    /\ \A c \in Callers :
          call[c].pc = "await_get" =>
             RequestsOf(c)[Len(RequestsOf(c))].token = strava_client.access_token

====
